---- MODULE Spec2Model ----
(***************************************************************************)
(* Model of the HTTP client layer of Track-Your-Meds (src/services/api.ts):*)
(* ApiService.request with its timeout race (withTimeout), its retry loop  *)
(* (withRetry), the HTTP-status / content-type handling and the error      *)
(* normalisation, together with the typed client methods and healthCheck.  *)
(*                                                                         *)
(* JavaScript strings are sequences of one-character strings, so that      *)
(* String.prototype.includes and template literals are computed and not    *)
(* assumed.  Time is a millisecond clock `now`; timers fire once the clock *)
(* has reached their deadline, network events happen at any time.          *)
(***************************************************************************)
EXTENDS Integers, Sequences, FiniteSets

VARIABLES
  now,        \* the clock, in ms
  pc,         \* position of the invocation: idle, race, delay, text, json, done
  call,       \* the client method invoked and the request it builds
  attempts,   \* withRetry's parameter `attempts` of the current activation
  tries,      \* one record per call of operation(): fetch, timer and race
  delayAt,    \* deadline of the pending retry-delay timer, -1 when none
  response,   \* the Response that withRetry returned to request()
  bodyReads,  \* calls of response.text() and response.json() so far
  reqOutcome, \* how request() settled
  outcome     \* how the client method settled

\* HomeScreen
VARIABLES
  symptoms,   \* useState<Symptom[]>: the local list, each << id, isActive >>
  loading,    \* useState(true)
  homeError,  \* useState<string | null> `error`: "null" or the message
  fetching,   \* calls of apiService.getSymptoms() in flight
  fetched,    \* how the most recent call of getSymptoms() settled
  toggles     \* the calls of handleToggleActive, in order, with their closure

\* AddSymptomScreen and the SymptomForm it shows
VARIABLES
  formKind,         \* which SymptomForm is mounted: "plain" or "validating"
  symptomName,      \* useState('')
  isLoading,        \* useState(false)
  showSymptomForm,  \* useState(false)
  stages,           \* SymptomForm: useState<StageData[]>
  expandedStage,    \* SymptomForm: useState<number | null>, -1 for null
  validationErrors, \* SymptomForm: the keys of useState<{[key]: string}>
  edits,            \* calls of SymptomForm's updateMedication so far
  creating,         \* calls of apiService.createSymptom in flight
  lastRequest,      \* the symptomData of the last createSymptom call
  navigation        \* "open", "success" (alert awaiting OK), "back" (goBack)

\* AddMedicationScreen
VARIABLES
  route,            \* route.params: stageId and symptomId
  medName,          \* useState('') `name`
  medIntervalHours, \* useState('8') `intervalHours`
  medTotalDays,     \* useState('5') `totalDays`
  medQuantityMg,    \* useState('400') `quantityMg`
  medIsLoading,     \* useState(false) `isLoading`
  medCreating,      \* calls of apiService.createMedication in flight
  medRequest,       \* the medicationData of the last createMedication call
  medNavigation     \* "open", "success" (alert awaiting OK), "back" (goBack)

\* Alert.alert
VARIABLES
  lastAlert         \* the message of the last alert shown, "none" before

apiVars == << now, pc, call, attempts, tries, delayAt, response, bodyReads,
              reqOutcome, outcome >>

homeVars == << symptoms, loading, homeError, fetching, fetched, toggles >>

addVars == << formKind, symptomName, isLoading, showSymptomForm, stages,
              expandedStage, validationErrors, edits, creating, lastRequest,
              navigation >>

medVars == << route, medName, medIntervalHours, medTotalDays, medQuantityMg,
              medIsLoading, medCreating, medRequest, medNavigation >>

uiVars == << homeVars, addVars, medVars, lastAlert >>

vars == << now, pc, call, attempts, tries, delayAt, response, bodyReads,
           reqOutcome, outcome, homeVars, addVars, medVars, lastAlert >>

-----------------------------------------------------------------------------
(* API_CONFIG                                                              *)

TIMEOUT == 5000

RETRY_ATTEMPTS == 2

RETRY_DELAY == 500

(* Bounds of the model: the clock stops at MaxTime; ids are drawn from Ids.*)
MaxTime == 11000

-----------------------------------------------------------------------------
(* String literals of api.ts                                               *)
\* "Request timeout"
STR_RequestTimeout ==
  << "R", "e", "q", "u", "e", "s", "t", " ", "t", "i", "m", "e", "o", "u", "t" >>

\* "Network request failed"
STR_NetworkRequestFailed ==
  << "N", "e", "t", "w", "o", "r", "k", " ", "r", "e", "q", "u", "e", "s", "t", " ", "f", "a", "i", "l", "e", "d" >>

\* "timeout"
STR_timeout ==
  << "t", "i", "m", "e", "o", "u", "t" >>

\* "Unable to connect to server. Please check your connection."
STR_UnableToConnect ==
  << "U", "n", "a", "b", "l", "e", " ", "t", "o", " ", "c", "o", "n", "n", "e", "c", "t", " ", "t", "o", " ", "s", "e", "r", "v", "e", "r", ".", " ", "P", "l", "e", "a", "s", "e", " ", "c", "h", "e", "c", "k", " ", "y", "o", "u", "r", " ", "c", "o", "n", "n", "e", "c", "t", "i", "o", "n", "." >>

\* "Request timed out. Please try again."
STR_RequestTimedOut ==
  << "R", "e", "q", "u", "e", "s", "t", " ", "t", "i", "m", "e", "d", " ", "o", "u", "t", ".", " ", "P", "l", "e", "a", "s", "e", " ", "t", "r", "y", " ", "a", "g", "a", "i", "n", "." >>

\* "application/json"
STR_applicationJson ==
  << "a", "p", "p", "l", "i", "c", "a", "t", "i", "o", "n", "/", "j", "s", "o", "n" >>

\* "/symptoms"
STR_symptoms ==
  << "/", "s", "y", "m", "p", "t", "o", "m", "s" >>

\* "/Medication"
STR_Medication ==
  << "/", "M", "e", "d", "i", "c", "a", "t", "i", "o", "n" >>

\* 'http://localhost:5050/api' (the iOS development value of BASE_URL); the
\* base URL is never inspected, so it is kept as one atom.
BASE_URL == << "http://localhost:5050/api" >>

-----------------------------------------------------------------------------
(* JavaScript values and the platform functions the client relies on       *)

Undefined == [t |-> "undefined"]

Null == [t |-> "null"]

Str(s) == [t |-> "string", v |-> s]

Num(n) == [t |-> "number", v |-> n]

Bool(b) == [t |-> "boolean", v |-> b]

Arr(elems) == [t |-> "array", v |-> elems]

\* an object is the sequence of its << key, value >> properties, in
\* insertion order
Obj(props) == [t |-> "object", v |-> props]

\* `{}`
EmptyObject == Obj(<< >>)

\* ToBoolean, as used by `body && ..`, `!contentType` and `errorText || ..`
Truthy(v) ==
  CASE v.t = "undefined" -> FALSE
    [] v.t = "null"      -> FALSE
    [] v.t = "boolean"   -> v.v
    [] v.t = "number"    -> v.v # 0
    [] v.t = "string"    -> v.v # << >>
    [] OTHER             -> TRUE

\* String.prototype.includes
Includes(s, sub) ==
  \E i \in 0..(Len(s) - Len(sub)) : SubSeq(s, i + 1, i + Len(sub)) = sub

DigitChars == << "0", "1", "2", "3", "4", "5", "6", "7", "8", "9" >>

\* the decimal text of a non-negative integer, as `${n}` produces it
RECURSIVE ToString(_)
ToString(n) ==
  IF n < 10 THEN << DigitChars[n + 1] >>
  ELSE ToString(n \div 10) \o << DigitChars[(n % 10) + 1] >>

\* JSON.stringify on the values above (strings of the model need no escapes)
RECURSIVE JSONstringify(_)
JSONstringify(v) ==
  LET Join(parts) ==
        LET RECURSIVE J(_)
            J(i) == IF i > Len(parts) THEN << >>
                    ELSE (IF i > 1 THEN << "," >> ELSE << >>) \o parts[i] \o J(i + 1)
        IN  J(1)
      Quote(s) == << "\"" >> \o s \o << "\"" >>
      Elem(e) == IF e.t = "undefined" THEN JSONstringify(Null) ELSE JSONstringify(e)
      Props == SelectSeq(v.v, LAMBDA p : p[2].t # "undefined")
  IN  CASE v.t = "string"  -> Quote(v.v)
        [] v.t = "number"  -> ToString(v.v)
        [] v.t = "boolean" -> IF v.v THEN << "t", "r", "u", "e" >>
                                     ELSE << "f", "a", "l", "s", "e" >>
        [] v.t = "null"    -> << "n", "u", "l", "l" >>
        [] v.t = "array"   ->
             << "[" >> \o Join([i \in 1..Len(v.v) |-> Elem(v.v[i])]) \o << "]" >>
        [] v.t = "object"  ->
             << "{" >>
             \o Join([i \in 1..Len(Props) |->
                        Quote(Props[i][1]) \o << ":" >> \o JSONstringify(Props[i][2])])
             \o << "}" >>

\* new Error(message), new TypeError(message), a SyntaxError of JSON.parse
NewError(name, message) == [name |-> name, message |-> message]

\* `error instanceof TypeError`
InstanceOfTypeError(error) == error.name = "TypeError"

\* `error instanceof Error`: every error object of the model is one
InstanceOfError(error) == error.name \in {"Error", "TypeError", "SyntaxError"}

\* Response.ok
ResponseOk(r) == r.status >= 200 /\ r.status <= 299

-----------------------------------------------------------------------------
(* The environment: what fetch can settle with                             *)

\* A Response: status line, the content-type header (Null when absent), the
\* body text that text() yields and the result of json() on that body.
MkResponse(status, statusText, contentType, body, json) ==
  [status |-> status, statusText |-> statusText, contentType |-> contentType,
   body |-> body, json |-> json]

JsonOk(v) == [ok |-> TRUE, value |-> v]

JsonSyntaxError ==
  [ok |-> FALSE,
   error |-> NewError("SyntaxError",
     << "J", "S", "O", "N", " ", "P", "a", "r", "s", "e", " ", "e", "r", "r", "o", "r" >>)]

TXT_JsonUtf8 ==
  << "a", "p", "p", "l", "i", "c", "a", "t", "i", "o", "n", "/", "j", "s", "o", "n", ";", " ", "c", "h", "a", "r", "s", "e", "t", "=", "u", "t", "f", "-", "8" >>

TXT_TextPlain ==
  << "t", "e", "x", "t", "/", "p", "l", "a", "i", "n" >>

\* the Symptom the server returns, with its assigned id
ServerSymptom ==
  Obj(<< << << "i", "d" >>, Num(1) >>,
         << << "n", "a", "m", "e" >>, Str(<< "M", "i", "g", "r", "a", "i", "n", "e" >>) >>,
         << << "i", "s", "A", "c", "t", "i", "v", "e" >>, Bool(TRUE) >> >>)

\* 200 with a JSON body
R200Json ==
  MkResponse(200, << "O", "K" >>, Str(TXT_JsonUtf8),
             JSONstringify(ServerSymptom), JsonOk(ServerSymptom))

\* 200 declared as JSON whose body does not parse
R200BadJson ==
  MkResponse(200, << "O", "K" >>, Str(STR_applicationJson),
             << "<", "h", "t", "m", "l", ">" >>, JsonSyntaxError)

\* 200 with a text/plain body
R200Text ==
  MkResponse(200, << "O", "K" >>, Str(TXT_TextPlain), << "o", "k" >>, JsonSyntaxError)

\* 204 without content type and without body
R204 ==
  MkResponse(204, << "N", "o", " ", "C", "o", "n", "t", "e", "n", "t" >>, Null,
             << >>, JsonSyntaxError)

\* 404 "Symptom not found"
R404 ==
  MkResponse(404, << "N", "o", "t", " ", "F", "o", "u", "n", "d" >>, Str(TXT_TextPlain),
             << "S", "y", "m", "p", "t", "o", "m", " ", "n", "o", "t", " ", "f", "o", "u", "n", "d" >>,
             JsonSyntaxError)

\* 500 with an empty body
R500Empty ==
  MkResponse(500, << "I", "n", "t", "e", "r", "n", "a", "l", " ", "E", "r", "r", "o", "r" >>, Null,
             << >>, JsonSyntaxError)

\* 504 "upstream timeout"
R504 ==
  MkResponse(504, << "G", "a", "t", "e", "w", "a", "y", " ", "T", "i", "m", "e", "o", "u", "t" >>,
             Str(TXT_TextPlain),
             << "u", "p", "s", "t", "r", "e", "a", "m", " ", "t", "i", "m", "e", "o", "u", "t" >>,
             JsonSyntaxError)

Responses == {R200Json, R200BadJson, R200Text, R204, R404, R500Empty, R504}

\* the host cannot be reached
NetworkRequestFailed == NewError("TypeError", STR_NetworkRequestFailed)

\* another rejection of fetch: "Network request aborted"
OtherFetchError ==
  NewError("TypeError",
    << "N", "e", "t", "w", "o", "r", "k", " ", "r", "e", "q", "u", "e", "s", "t", " ",
       "a", "b", "o", "r", "t", "e", "d" >>)

FetchErrors == {NetworkRequestFailed, OtherFetchError}

-----------------------------------------------------------------------------
(* ApiService: building the request                                        *)

\* this.defaultHeaders; header names and values are never inspected
defaultHeaders ==
  {<< "Content-Type", "application/json" >>, << "Accept", "application/json" >>}

\* request(endpoint, options) up to its first await: url, config and timeout
request(endpoint, method, body) ==
  [url     |-> BASE_URL \o endpoint,
   method  |-> method,
   headers |-> defaultHeaders,
   body    |-> IF Truthy(body) /\ method # "GET"
               THEN Str(JSONstringify(body)) ELSE Undefined,
   timeout |-> TIMEOUT]

get(endpoint) == request(endpoint, "GET", Undefined)

\* post that does not pass its data on
post_dropsData(endpoint, data) == request(endpoint, "POST", Undefined)

post(endpoint, data) == request(endpoint, "POST", data)

put(endpoint, data) == request(endpoint, "PUT", data)

delete(endpoint) == request(endpoint, "DELETE", Undefined)

\* a PartialSymptom as the Add-Symptom flow builds it
MigraineSymptom ==
  Obj(<< << << "n", "a", "m", "e" >>, Str(<< "M", "i", "g", "r", "a", "i", "n", "e" >>) >>,
         << << "i", "s", "A", "c", "t", "i", "v", "e" >>, Bool(TRUE) >>,
         << << "s", "t", "a", "g", "e", "s" >>, Arr(<< >>) >> >>)

getSymptoms == [fn |-> "getSymptoms", req |-> get(STR_symptoms)]

getSymptom(id) ==
  [fn |-> "getSymptom", req |-> get(STR_symptoms \o << "/" >> \o ToString(id))]

createSymptom(symptom) ==
  [fn |-> "createSymptom", req |-> post(STR_symptoms, symptom)]

deleteMedication(id) ==
  [fn |-> "deleteMedication",
   req |-> delete(STR_Medication \o << "/" >> \o ToString(id))]

\* "/stages"
STR_stages ==
  << "/", "s", "t", "a", "g", "e", "s" >>

\* "/intakes"
STR_intakes ==
  << "/", "i", "n", "t", "a", "k", "e", "s" >>

\* the ids the client methods are called with
Ids == {7, 42}

\* a PartialMedication as the forms build it: no id, stageId 0
IbuprofenMedication ==
  Obj(<< << << "n", "a", "m", "e" >>, Str(<< "I", "b", "u", "p", "r", "o", "f", "e", "n" >>) >>,
         << << "q", "u", "a", "n", "t", "i", "t", "y", "M", "g" >>, Num(400) >>,
         << << "i", "n", "t", "e", "r", "v", "a", "l", "H", "o", "u", "r", "s" >>, Num(8) >>,
         << << "t", "o", "t", "a", "l", "D", "a", "y", "s" >>, Num(5) >>,
         << << "t", "r", "e", "a", "t", "m", "e", "n", "t", "I", "d" >>, Null >>,
         << << "s", "t", "a", "g", "e", "I", "d" >>, Undefined >> >>)

\* a PartialStage with one medication
SevereStage ==
  Obj(<< << << "n", "a", "m", "e" >>, Str(<< "S", "e", "v", "e", "r", "e" >>) >>,
         << << "m", "e", "d", "i", "c", "a", "t", "i", "o", "n" >>, Arr(<< IbuprofenMedication >>) >> >>)

\* a PartialSymptom with one stage
SevereMigraineSymptom ==
  Obj(<< << << "n", "a", "m", "e" >>, Str(<< "M", "i", "g", "r", "a", "i", "n", "e" >>) >>,
         << << "i", "s", "A", "c", "t", "i", "v", "e" >>, Bool(TRUE) >>,
         << << "s", "t", "a", "g", "e", "s" >>, Arr(<< SevereStage >>) >> >>)

\* a Partial<Intake>
DoseIntake ==
  Obj(<< << << "m", "e", "d", "i", "c", "a", "t", "i", "o", "n", "I", "d" >>, Num(7) >>,
         << << "s", "c", "h", "e", "d", "u", "l", "e", "d", "T", "i", "m", "e" >>, Str(<< "2", "0", "2", "5", "-", "0", "1", "-", "0", "1", "T", "0", "8", ":", "0", "0", ":", "0", "0", "Z" >>) >> >>)

updateSymptom(id, symptom) ==
  [fn |-> "updateSymptom",
   req |-> put(STR_symptoms \o << "/" >> \o ToString(id), symptom)]

deleteSymptom(id) ==
  [fn |-> "deleteSymptom",
   req |-> delete(STR_symptoms \o << "/" >> \o ToString(id))]

\* getMedicationsByStage asking `/Medication/${stageId}`
getMedicationsByStage_noStage(stageId) ==
  [fn |-> "getMedicationsByStage",
   req |-> get(STR_Medication \o << "/" >> \o ToString(stageId))]

getMedicationsByStage(stageId) ==
  [fn |-> "getMedicationsByStage",
   req |-> get(STR_Medication \o << "/", "s", "t", "a", "g", "e", "/" >>
               \o ToString(stageId))]

getMedication(id) ==
  [fn |-> "getMedication",
   req |-> get(STR_Medication \o << "/" >> \o ToString(id))]

createMedication(medication) ==
  [fn |-> "createMedication", req |-> post(STR_Medication, medication)]

updateMedication(id, medication) ==
  [fn |-> "updateMedication",
   req |-> put(STR_Medication \o << "/" >> \o ToString(id), medication)]

createStage(stage) == [fn |-> "createStage", req |-> post(STR_stages, stage)]

updateStage(id, stage) ==
  [fn |-> "updateStage",
   req |-> put(STR_stages \o << "/" >> \o ToString(id), stage)]

deleteStage(id) ==
  [fn |-> "deleteStage", req |-> delete(STR_stages \o << "/" >> \o ToString(id))]

createIntake(intake) == [fn |-> "createIntake", req |-> post(STR_intakes, intake)]

updateIntake(id, intake) ==
  [fn |-> "updateIntake",
   req |-> put(STR_intakes \o << "/" >> \o ToString(id), intake)]

deleteIntake(id) ==
  [fn |-> "deleteIntake", req |-> delete(STR_intakes \o << "/" >> \o ToString(id))]

\* every typed client method, over Ids and the inputs above
MethodCalls ==
  {getSymptoms, createSymptom(MigraineSymptom), createSymptom(SevereMigraineSymptom),
   createMedication(IbuprofenMedication), createStage(SevereStage),
   createIntake(DoseIntake)}
  \cup {getSymptom(i) : i \in Ids}
  \cup {updateSymptom(i, SevereMigraineSymptom) : i \in Ids}
  \cup {deleteSymptom(i) : i \in Ids}
  \cup {getMedicationsByStage(i) : i \in Ids}
  \cup {getMedication(i) : i \in Ids}
  \cup {updateMedication(i, IbuprofenMedication) : i \in Ids}
  \cup {deleteMedication(i) : i \in Ids}
  \cup {updateStage(i, SevereStage) : i \in Ids}
  \cup {deleteStage(i) : i \in Ids}
  \cup {updateIntake(i, DoseIntake) : i \in Ids}
  \cup {deleteIntake(i) : i \in Ids}

\* healthCheck awaits this.get('/symptoms')
healthCheck == [fn |-> "healthCheck", req |-> get(STR_symptoms)]

\* the invocations explored
Calls ==
  {getSymptoms, getSymptom(999), createSymptom(MigraineSymptom),
   deleteMedication(42), healthCheck}

-----------------------------------------------------------------------------
(* ApiService: settling                                                    *)

Pending == [kind |-> "pending"]

Resolved(v) == [kind |-> "resolved", value |-> v]

Thrown(e) == [kind |-> "thrown", error |-> e]

NoResponse == [status |-> 0]

\* catchError with the timer's message matched as 'Timeout'
catchError_caseSlip(error) ==
  IF InstanceOfTypeError(error) /\ Includes(error.message, STR_NetworkRequestFailed)
  THEN NewError("Error", STR_UnableToConnect)
  ELSE IF InstanceOfError(error)
          /\ Includes(error.message, << "T", "i", "m", "e", "o", "u", "t" >>)
  THEN NewError("Error", STR_RequestTimedOut)
  ELSE error

\* catchError without the connectivity branch
catchError_noConnectivity(error) ==
  IF InstanceOfError(error) /\ Includes(error.message, STR_timeout)
  THEN NewError("Error", STR_RequestTimedOut)
  ELSE error

\* the catch block of request()
catchError(error) ==
  IF InstanceOfTypeError(error) /\ Includes(error.message, STR_NetworkRequestFailed)
  THEN NewError("Error", STR_UnableToConnect)
  ELSE IF InstanceOfError(error) /\ Includes(error.message, STR_timeout)
  THEN NewError("Error", STR_RequestTimedOut)
  ELSE error

\* `HTTP ${response.status}: ${errorText || response.statusText}`
httpErrorMessage(r, errorText) ==
  << "H", "T", "T", "P", " " >> \o ToString(r.status) \o << ":", " " >>
  \o (IF Truthy(Str(errorText)) THEN errorText ELSE r.statusText)

\* isEmptyResponse written as `contentType && !contentType.includes(..)`
isEmptyResponse_absentParsed(contentType) ==
  /\ Truthy(contentType)
  /\ ~Includes(contentType.v, STR_applicationJson)

\* `!contentType || !contentType.includes('application/json')`
isEmptyResponse(contentType) ==
  \/ ~Truthy(contentType)
  \/ ~Includes(contentType.v, STR_applicationJson)

\* methodOutcome with healthCheck's catch rethrowing
methodOutcome_rethrow(fn, o) ==
  IF fn = "healthCheck" /\ o.kind = "resolved" THEN Resolved(Bool(TRUE)) ELSE o

\* what the client method does with the settled request(): healthCheck maps
\* it to a boolean, every other method returns request()'s promise
methodOutcome(fn, o) ==
  IF fn = "healthCheck"
  THEN (IF o.kind = "resolved" THEN Resolved(Bool(TRUE)) ELSE Resolved(Bool(FALSE)))
  ELSE o

\* shouldRetry written as `attempts > 0`
shouldRetry_offByOne(n) == n > 0

\* `attempts > 1` in the catch of withRetry
shouldRetry(n) == n > 1

\* timeoutDeadline with one timer window per call: every try after the first
\* inherits the deadline of the first
timeoutDeadline_perCall(t, timeoutMs) ==
  IF tries = << >> THEN t + timeoutMs ELSE tries[1].timerAt

\* the timer of withTimeout: setTimeout(.., timeoutMs) set at time t
timeoutDeadline(t, timeoutMs) == t + timeoutMs

\* newTry with the bare fetch: no timer is set
newTry_noTimer(t, req) ==
  [req      |-> req,
   issuedAt |-> t,
   fetch    |-> [state |-> "pending"],
   timerAt  |-> timeoutDeadline(t, req.timeout),
   timer    |-> "fired",
   race     |-> [state |-> "pending"]]

\* operation(): fetch(url, config) raced against a new timer
newTry(t, req) ==
  [req      |-> req,
   issuedAt |-> t,
   fetch    |-> [state |-> "pending"],
   timerAt  |-> timeoutDeadline(t, req.timeout),
   timer    |-> "pending",
   race     |-> [state |-> "pending"]]

\* caughtError keeping the error of the first try
caughtError_first(trs) == trs[1].race.error

\* retryDelay without the wait: the retry is due at once
retryDelay_none(t) == t

\* the timer of withRetry: setTimeout(resolve, API_CONFIG.RETRY_DELAY) set at
\* time t
retryDelay(t) == t + RETRY_DELAY

\* the error withRetry's catch holds when the budget is used up
caughtError(trs) == trs[Len(trs)].race.error

\* request() settles with o, and with it the client method
Settle(o) ==
  /\ pc' = "done"
  /\ reqOutcome' = o
  /\ outcome' = methodOutcome(call.fn, o)

\* the race of the current try rejected: withRetry's catch
Caught(trs) ==
  IF shouldRetry(attempts)
  THEN /\ pc' = "delay"
       /\ delayAt' = retryDelay(now)
       /\ UNCHANGED << reqOutcome, outcome >>
  ELSE /\ Settle(Thrown(catchError(caughtError(trs))))
       /\ UNCHANGED delayAt

\* Returned with the status check inside the retried operation: a response
\* that is not ok is retried like a rejection
Returned_retryHttpError(r) ==
  /\ response' = r
  /\ IF ~ResponseOk(r) /\ shouldRetry(attempts)
     THEN /\ pc' = "delay"
          /\ delayAt' = now + RETRY_DELAY
          /\ UNCHANGED << reqOutcome, outcome >>
     ELSE /\ UNCHANGED delayAt
          /\ IF ~ResponseOk(r)
             THEN pc' = "text" /\ UNCHANGED << reqOutcome, outcome >>
             ELSE IF isEmptyResponse(r.contentType)
             THEN Settle(Resolved(EmptyObject))
             ELSE pc' = "json" /\ UNCHANGED << reqOutcome, outcome >>

\* the race of the current try fulfilled with r: withRetry returns r and
\* request() goes on to its next await
Returned(r) ==
  /\ response' = r
  /\ UNCHANGED delayAt
  /\ IF ~ResponseOk(r)
     THEN pc' = "text" /\ UNCHANGED << reqOutcome, outcome >>
     ELSE IF isEmptyResponse(r.contentType)
     THEN Settle(Resolved(EmptyObject))
     ELSE pc' = "json" /\ UNCHANGED << reqOutcome, outcome >>

-----------------------------------------------------------------------------
(* The state machine                                                       *)

\* no client method has been invoked yet
ApiInit ==
  /\ now = 0
  /\ pc = "idle"
  /\ call = [fn |-> "none"]
  /\ attempts = 0
  /\ tries = << >>
  /\ delayAt = -1
  /\ response = NoResponse
  /\ bodyReads = [text |-> 0, json |-> 0]
  /\ reqOutcome = Pending
  /\ outcome = Pending

\* HomeScreen after its first render and its mount effect: useState([]),
\* useState(true), useState(null), and fetchSymptoms() awaiting getSymptoms()
HomeScreenInit ==
  /\ symptoms = << >>
  /\ loading = TRUE
  /\ homeError = "null"
  /\ fetching = 1
  /\ fetched = [state |-> "none"]
  /\ toggles = << >>

\* the two components of the repository that are named SymptomForm
FormKinds == {"plain", "validating"}

\* the stage names of each SymptomForm, in their order
StageNames(kind) ==
  IF kind = "validating" THEN << "Early", "Mild", "Severe" >>
  ELSE << "Early", "Mid", "Severe" >>

\* SymptomForm's initial stages: three stages without medications
InitialStages(kind) ==
  [s \in 1..3 |-> [name |-> StageNames(kind)[s], medications |-> << >>]]

NoRequest == [sent |-> FALSE]

\* AddSymptomScreen after its first render, showing the name step; the
\* SymptomForm it will mount is `kind`
AddSymptomScreenInit(kind) ==
  /\ formKind = kind
  /\ symptomName = << >>
  /\ isLoading = FALSE
  /\ showSymptomForm = FALSE
  /\ stages = InitialStages(kind)
  /\ expandedStage = -1
  /\ validationErrors = {}
  /\ edits = 0
  /\ creating = 0
  /\ lastRequest = NoRequest
  /\ navigation = "open"

\* AddMedicationScreen after its first render, opened for stage 7 of
\* symptom 42
AddMedicationScreenInit ==
  /\ route = [stageId |-> 7, symptomId |-> 42]
  /\ medName = << >>
  /\ medIntervalHours = << "8" >>
  /\ medTotalDays = << "5" >>
  /\ medQuantityMg = << "4", "0", "0" >>
  /\ medIsLoading = FALSE
  /\ medCreating = 0
  /\ medRequest = NoRequest
  /\ medNavigation = "open"

Init ==
  /\ ApiInit
  /\ HomeScreenInit
  /\ AddSymptomScreenInit("plain")
  /\ AddMedicationScreenInit
  /\ lastAlert = "none"

\* a client method is invoked: request() runs up to `await this.withRetry(..)`,
\* withRetry calls operation() for the first time
Invoke(c) ==
  /\ pc = "idle"
  /\ call' = c
  /\ attempts' = RETRY_ATTEMPTS
  /\ tries' = << newTry(now, c.req) >>
  /\ pc' = "race"
  /\ UNCHANGED << now, delayAt, response, bodyReads, reqOutcome, outcome >>
  /\ UNCHANGED uiVars

\* RacePending of a race that can be settled again: a later settlement
\* overrides the first
RacePending_resettable(k) == TRUE

RacePending(k) == tries[k].race.state = "pending"

\* the fetch of try k fulfils with response r
FetchFulfil(k, r) ==
  /\ tries[k].fetch.state = "pending"
  /\ LET f == [state |-> "fulfilled", value |-> r, at |-> now]
     IN  IF RacePending(k)
         THEN /\ tries' = [tries EXCEPT ![k].fetch = f,
                                        ![k].race = [state |-> "fulfilled", value |-> r]]
              /\ Returned(r)
         ELSE /\ tries' = [tries EXCEPT ![k].fetch = f]
              /\ UNCHANGED << pc, delayAt, response, reqOutcome, outcome >>
  /\ UNCHANGED << now, call, attempts, bodyReads >>
  /\ UNCHANGED uiVars

\* the fetch of try k rejects with error e
FetchReject(k, e) ==
  /\ tries[k].fetch.state = "pending"
  /\ LET f == [state |-> "rejected", error |-> e, at |-> now]
     IN  IF RacePending(k)
         THEN /\ tries' = [tries EXCEPT ![k].fetch = f,
                                        ![k].race = [state |-> "rejected", error |-> e,
                                                     by |-> "fetch", at |-> now]]
              /\ Caught(tries')
         ELSE /\ tries' = [tries EXCEPT ![k].fetch = f]
              /\ UNCHANGED << pc, delayAt, reqOutcome, outcome >>
  /\ UNCHANGED << now, call, attempts, response, bodyReads >>
  /\ UNCHANGED uiVars

\* the timer of try k fires: reject(new Error('Request timeout'))
TimerFire(k) ==
  /\ tries[k].timer = "pending"
  /\ now >= tries[k].timerAt
  /\ IF RacePending(k)
     THEN /\ tries' = [tries EXCEPT ![k].timer = "fired",
                                    ![k].race = [state |-> "rejected",
                                                 error |-> NewError("Error", STR_RequestTimeout),
                                                 by |-> "timer", at |-> now]]
          /\ Caught(tries')
     ELSE /\ tries' = [tries EXCEPT ![k].timer = "fired"]
          /\ UNCHANGED << pc, delayAt, reqOutcome, outcome >>
  /\ UNCHANGED << now, call, attempts, response, bodyReads >>
  /\ UNCHANGED uiVars

\* the retry delay is over: this.withRetry(operation, attempts - 1) calls
\* operation() again
DelayFire ==
  /\ pc = "delay"
  /\ now >= delayAt
  /\ attempts' = attempts - 1
  /\ tries' = Append(tries, newTry(now, call.req))
  /\ delayAt' = -1
  /\ pc' = "race"
  /\ UNCHANGED << now, call, response, bodyReads, reqOutcome, outcome >>
  /\ UNCHANGED uiVars

\* `await response.text()` of a response that is not ok, and the throw
TextRead ==
  /\ pc = "text"
  /\ bodyReads' = [bodyReads EXCEPT !.text = @ + 1]
  /\ Settle(Thrown(catchError(
       NewError("Error", httpErrorMessage(response, response.body)))))
  /\ UNCHANGED << now, call, attempts, tries, delayAt, response >>
  /\ UNCHANGED uiVars

\* `await response.json()`
JsonRead ==
  /\ pc = "json"
  /\ bodyReads' = [bodyReads EXCEPT !.json = @ + 1]
  /\ IF response.json.ok
     THEN Settle(Resolved(response.json.value))
     ELSE Settle(Thrown(catchError(response.json.error)))
  /\ UNCHANGED << now, call, attempts, tries, delayAt, response >>
  /\ UNCHANGED uiVars

\* a timer that is due fires before the clock moves on
TimerDue ==
  \/ \E k \in 1..Len(tries) : tries[k].timer = "pending" /\ tries[k].timerAt <= now
  \/ pc = "delay" /\ delayAt <= now

\* the clock advances by one retry delay
Advance ==
  /\ pc # "idle"
  /\ now < MaxTime
  /\ ~TimerDue
  /\ now' = now + RETRY_DELAY
  /\ UNCHANGED << pc, call, attempts, tries, delayAt, response, bodyReads,
                  reqOutcome, outcome >>
  /\ UNCHANGED uiVars

Next ==
  \/ \E c \in Calls : Invoke(c)
  \/ \E k \in 1..Len(tries), r \in Responses : FetchFulfil(k, r)
  \/ \E k \in 1..Len(tries), e \in FetchErrors : FetchReject(k, e)
  \/ \E k \in 1..Len(tries) : TimerFire(k)
  \/ DelayFire
  \/ TextRead
  \/ JsonRead
  \/ Advance

Spec == Init /\ [][Next]_vars

-----------------------------------------------------------------------------
(* Properties                                                              *)

Tries == 1..Len(tries)

LastTry == tries[Len(tries)]

\* every try so far failed: its race was rejected by the timer or by fetch
EveryTryFailed ==
  Len(tries) > 0 /\ \A k \in Tries : tries[k].race.state = "rejected"

\* request() threw because withRetry gave up
GaveUp == pc = "done" /\ EveryTryFailed

TimedOut(k) == tries[k].race.state = "rejected" /\ tries[k].race.by = "timer"

\* C1, as stated: with RETRY_ATTEMPTS = 2 a call whose every attempt fails
\* makes 1 initial + 2 retries = 3 network attempts before it throws.
C1_ThreeAttemptsBeforeThrow ==
  GaveUp => /\ reqOutcome.kind = "thrown"
            /\ Len(tries) = 1 + RETRY_ATTEMPTS

\* C1, amended: a call whose every attempt fails makes exactly
\* RETRY_ATTEMPTS = 2 network attempts (1 initial + 1 retry) before it
\* throws, and no call ever makes more.
C1_TwoAttemptsBeforeThrow ==
  /\ Len(tries) <= RETRY_ATTEMPTS
  /\ GaveUp => /\ reqOutcome.kind = "thrown"
               /\ Len(tries) = RETRY_ATTEMPTS

C1_Witness ==
  /\ GaveUp
  /\ reqOutcome.kind = "thrown"
  /\ Len(tries) = 2
  /\ TimedOut(1)
  /\ tries[2].race.by = "fetch"

\* the responses that carry a result: status ok and, when declared as JSON,
\* a body that parses
SuccessResponses == {R200Json, R200Text, R204}

\* the fetch of try k was answered with r within the try's timeout window
AnsweredInTime(k, r) ==
  /\ tries[k].fetch.state = "fulfilled"
  /\ tries[k].fetch.value = r
  /\ tries[k].fetch.at < tries[k].issuedAt + TIMEOUT

\* C2: when the first attempt failed by timeout or transport error and a
\* later attempt receives a successful response, the call resolves with the
\* result of that response: it never throws, and the earlier failure is not
\* surfaced.
C2_RetrySuccessResolves ==
  \A k \in Tries : \A r \in SuccessResponses :
    (k > 1 /\ AnsweredInTime(k, r)) =>
       /\ tries[1].race.state = "rejected"
       /\ reqOutcome.kind # "thrown"
       /\ pc = "done" => /\ reqOutcome.kind = "resolved"
                         /\ reqOutcome.value \in
                              {EmptyObject} \cup (IF r.json.ok THEN {r.json.value} ELSE {})
                         /\ call.fn # "healthCheck" => outcome = reqOutcome

C2_Witness ==
  /\ pc = "done"
  /\ Len(tries) = 2
  /\ TimedOut(1)
  /\ AnsweredInTime(2, R200Json)
  /\ reqOutcome = Resolved(ServerSymptom)

\* C3: when all attempts are used up the error thrown is determined by the
\* last attempt alone: the timeout message when the last attempt timed out,
\* the connectivity message when its fetch failed with 'Network request
\* failed', and otherwise the last fetch's own error, whatever the earlier
\* attempts failed with.
C3_FinalAttemptDecides ==
  GaveUp =>
    reqOutcome =
      Thrown(IF LastTry.race.by = "timer"
             THEN NewError("Error", STR_RequestTimedOut)
             ELSE IF LastTry.fetch.error = NetworkRequestFailed
             THEN NewError("Error", STR_UnableToConnect)
             ELSE LastTry.fetch.error)

C3_Witness ==
  /\ GaveUp
  /\ Len(tries) = 2
  /\ TimedOut(1)
  /\ tries[2].race.by = "fetch"
  /\ tries[2].race.error = NetworkRequestFailed
  /\ reqOutcome = Thrown(NewError("Error", STR_UnableToConnect))

\* C4: a call whose every attempt is ended by its timer throws the error
\* 'Request timed out. Please try again.', never the timer's own error
\* 'Request timeout'.
C4_TimeoutMessage ==
  (GaveUp /\ \A k \in Tries : TimedOut(k)) =>
     /\ reqOutcome.kind = "thrown"
     /\ reqOutcome.error.message = STR_RequestTimedOut
     /\ reqOutcome.error.message # STR_RequestTimeout

C4_Witness ==
  /\ GaveUp
  /\ Len(tries) = 2
  /\ TimedOut(1) /\ TimedOut(2)
  /\ tries[1].fetch.state = "pending" /\ tries[2].fetch.state = "pending"
  /\ reqOutcome = Thrown(NewError("Error", STR_RequestTimedOut))

\* request() got a response whose status is not ok
GotHttpError == response # NoResponse /\ ~ResponseOk(response)

\* C5, as stated: for every response with a non-success status the call
\* throws an error whose message carries the numeric status and the body
\* text verbatim (the status text when the body is empty), whatever the body.
C5_HttpErrorCarriesStatusAndBody ==
  (pc = "done" /\ GotHttpError) =>
     /\ reqOutcome.kind = "thrown"
     /\ reqOutcome.error.message =
          << "H", "T", "T", "P", " " >> \o ToString(response.status) \o << ":", " " >>
          \o (IF response.body # << >> THEN response.body ELSE response.statusText)

\* C6, as stated: a response with a non-success HTTP status is a failure for
\* the retry policy, so a call that ends with an HTTP error has used up its
\* retry budget.
C6_HttpErrorRetried ==
  (pc = "done" /\ GotHttpError) => Len(tries) >= RETRY_ATTEMPTS

\* C6, amended: the retry policy applies only to a rejection of the timed
\* fetch (timeout or transport error).  A response with a non-success HTTP
\* status is not retried: the try that received it is the last try of the
\* call, every earlier try was rejected, and the call throws.
C6_HttpErrorNotRetried ==
  /\ \A k \in Tries : k < Len(tries) => tries[k].race.state = "rejected"
  /\ GotHttpError =>
       /\ LastTry.race = [state |-> "fulfilled", value |-> response]
       /\ pc \in {"text", "done"}
       /\ delayAt = -1
       /\ pc = "done" => reqOutcome.kind = "thrown"

C6_Witness ==
  /\ pc = "done"
  /\ call.fn = "createSymptom"
  /\ response = R404
  /\ Len(tries) = 1
  /\ attempts = RETRY_ATTEMPTS
  /\ reqOutcome.kind = "thrown"

\* C7, as stated: at most one fetch of the invocation is outstanding at any
\* time.
C7_OneOutstandingFetch ==
  Cardinality({k \in Tries : tries[k].fetch.state = "pending"}) <= 1

\* C8: healthCheck resolves to true exactly when its GET /symptoms resolves
\* and to false when that call throws; it never throws.
C8_HealthCheckBoolean ==
  call.fn = "healthCheck" =>
     /\ outcome.kind # "thrown"
     /\ pc = "done" => outcome = Resolved(Bool(reqOutcome.kind = "resolved"))
     /\ pc # "done" => outcome = Pending

C8_Witness ==
  /\ call.fn = "healthCheck"
  /\ pc = "done"
  /\ reqOutcome.kind = "thrown"
  /\ outcome = Resolved(Bool(FALSE))

\* C9: a call that receives a success-status response whose content type is
\* absent or not JSON resolves with the empty object {} and never reads the
\* body.
C9_NonJsonGivesEmptyObject ==
  (/\ response # NoResponse
   /\ ResponseOk(response)
   /\ response.contentType \in {Null, Str(TXT_TextPlain)}) =>
     /\ pc = "done"
     /\ reqOutcome = Resolved(EmptyObject)
     /\ bodyReads = [text |-> 0, json |-> 0]

C9_Witness ==
  /\ pc = "done"
  /\ call.fn = "deleteMedication"
  /\ response = R204
  /\ reqOutcome = Resolved(EmptyObject)

\* C10: every attempt has its own timeout window, which starts when the
\* attempt is issued: its timer is due TIMEOUT after its own issue, it is
\* failed by a timer no earlier than that, and only by its own timer.
C10_FreshTimeoutWindow ==
  \A k \in Tries :
    /\ tries[k].timerAt = tries[k].issuedAt + TIMEOUT
    /\ TimedOut(k) => /\ tries[k].race.at >= tries[k].issuedAt + TIMEOUT
                      /\ tries[k].timer = "fired"

\* the timer of the first try expired while the second try was pending, and
\* the second try was answered after that
C10_Witness ==
  /\ Len(tries) = 2
  /\ tries[1].race.by = "fetch"
  /\ tries[1].timer = "fired"
  /\ tries[2].issuedAt < tries[1].timerAt
  /\ tries[2].race.state = "fulfilled"
  /\ tries[2].fetch.at > tries[1].timerAt

\* The timers of the platform fire and the clock moves on; reading the body
\* of a received response ends.  Nothing is assumed of the server: a fetch
\* may stay unanswered for ever.
Fairness ==
  /\ WF_vars(Advance)
  /\ WF_vars(\E k \in 1..Len(tries) : TimerFire(k))
  /\ WF_vars(DelayFire)
  /\ WF_vars(TextRead)
  /\ WF_vars(JsonRead)

\* The invocations and the answers explored under fairness: one call that
\* carries a body and healthCheck; a response of each kind request() tells
\* apart (JSON, empty, not ok) and the connectivity failure.
LiveCalls == {createSymptom(MigraineSymptom), healthCheck}

LiveResponses == {R200Json, R204, R404}

LiveFetchErrors == {NetworkRequestFailed}

LiveNext ==
  \/ \E c \in LiveCalls : Invoke(c)
  \/ \E k \in 1..Len(tries), r \in LiveResponses : FetchFulfil(k, r)
  \/ \E k \in 1..Len(tries), e \in LiveFetchErrors : FetchReject(k, e)
  \/ \E k \in 1..Len(tries) : TimerFire(k)
  \/ DelayFire
  \/ TextRead
  \/ JsonRead
  \/ Advance

LiveSpec == Init /\ [][LiveNext]_vars /\ Fairness

\* The specification of the typed client methods: every method of MethodCalls
\* is invoked, answered by a JSON response or an HTTP error, or failed by the
\* transport.
MethodResponses == {R200Json, R404}

MethodFetchErrors == {NetworkRequestFailed}

MethodNext ==
  \/ \E c \in MethodCalls : Invoke(c)
  \/ \E k \in 1..Len(tries), r \in MethodResponses : FetchFulfil(k, r)
  \/ \E k \in 1..Len(tries), e \in MethodFetchErrors : FetchReject(k, e)
  \/ \E k \in 1..Len(tries) : TimerFire(k)
  \/ DelayFire
  \/ TextRead
  \/ JsonRead
  \/ Advance

MethodSpec == Init /\ [][MethodNext]_vars

\* C11: between two consecutive attempts the client waits the fixed retry
\* delay: the delay timer is set RETRY_DELAY after the failure of the attempt,
\* and the next attempt is issued no earlier than that, for every retry.
C11_FixedRetryDelay ==
  /\ pc = "delay" => delayAt = LastTry.race.at + RETRY_DELAY
  /\ \A k \in Tries :
       k > 1 => /\ tries[k - 1].race.state = "rejected"
                /\ tries[k].issuedAt >= tries[k - 1].race.at + RETRY_DELAY

C11_Witness ==
  /\ Len(tries) = 2
  /\ TimedOut(1)
  /\ tries[2].issuedAt = tries[1].race.at + RETRY_DELAY

\* C12: when the last attempt fails because fetch rejects with TypeError
\* 'Network request failed', the call throws 'Unable to connect to server.
\* Please check your connection.', not the timeout message and not the
\* transport error.
C12_ConnectivityMessage ==
  (/\ GaveUp
   /\ LastTry.race.by = "fetch"
   /\ LastTry.fetch.error.name = "TypeError"
   /\ LastTry.fetch.error.message = STR_NetworkRequestFailed) =>
     /\ reqOutcome.kind = "thrown"
     /\ reqOutcome.error.name = "Error"
     /\ reqOutcome.error.message = STR_UnableToConnect
     /\ reqOutcome.error.message # STR_RequestTimedOut
     /\ reqOutcome.error # LastTry.fetch.error

C12_Witness ==
  /\ GaveUp
  /\ Len(tries) = 2
  /\ tries[1].race.by = "fetch" /\ tries[1].race.error = OtherFetchError
  /\ tries[2].race.by = "fetch" /\ tries[2].race.error = NetworkRequestFailed
  /\ reqOutcome.error.message = STR_UnableToConnect

\* the last attempt was ended by its timer
TimerTimeout == GaveUp /\ TimedOut(Len(tries))

\* the last attempt's fetch could not reach the host
ConnectivityFailure ==
  GaveUp /\ LastTry.race.by = "fetch" /\ LastTry.fetch.error = NetworkRequestFailed

\* C13, as stated: a failure that is neither a connectivity failure nor a
\* timer timeout (an HTTP-status error, a JSON parse error, another
\* rejection of fetch) is thrown to the caller unchanged, and the timeout and
\* connectivity messages are thrown for those two conditions only.
C13_OtherErrorsUnchanged ==
  (pc = "done" /\ reqOutcome.kind = "thrown") =>
     /\ reqOutcome.error.message = STR_RequestTimedOut => TimerTimeout
     /\ reqOutcome.error.message = STR_UnableToConnect => ConnectivityFailure
     /\ (~TimerTimeout /\ ~ConnectivityFailure) =>
          reqOutcome.error =
            (IF GaveUp THEN LastTry.fetch.error
             ELSE IF GotHttpError
             THEN NewError("Error",
                    << "H", "T", "T", "P", " " >> \o ToString(response.status)
                    \o << ":", " " >>
                    \o (IF response.body # << >> THEN response.body
                        ELSE response.statusText))
             ELSE response.json.error)

\* C14: every issued call eventually settles, when timers fire: even if the
\* server answers no attempt, the call throws after the last attempt's
\* timeout.
C14_EventuallySettles == (pc # "idle") ~> (pc = "done" /\ outcome.kind # "pending")

\* the server answered no attempt and the call threw
C14_Witness ==
  /\ pc = "done"
  /\ call.fn = "createSymptom"
  /\ Len(tries) = RETRY_ATTEMPTS
  /\ \A k \in Tries : tries[k].fetch.state = "pending" /\ tries[k].timer = "fired"
  /\ outcome.kind = "thrown"
  /\ now >= LastTry.issuedAt + TIMEOUT

\* the body every try of the call sent
SentBody(b) == Len(tries) > 0 /\ \A k \in Tries : tries[k].req.body = b

\* the create and update calls, each with its typed input
BodyCalls ==
  {<< createSymptom(d), d >> : d \in {MigraineSymptom, SevereMigraineSymptom}}
  \cup {<< updateSymptom(i, SevereMigraineSymptom), SevereMigraineSymptom >> : i \in Ids}
  \cup {<< createMedication(IbuprofenMedication), IbuprofenMedication >>}
  \cup {<< updateMedication(i, IbuprofenMedication), IbuprofenMedication >> : i \in Ids}
  \cup {<< createStage(SevereStage), SevereStage >>}
  \cup {<< updateStage(i, SevereStage), SevereStage >> : i \in Ids}
  \cup {<< createIntake(DoseIntake), DoseIntake >>}
  \cup {<< updateIntake(i, DoseIntake), DoseIntake >> : i \in Ids}

\* the JSON text of SevereMigraineSymptom
SevereMigraineJson ==
  << "{", "\"", "n", "a", "m", "e", "\"", ":", "\"", "M", "i", "g", "r",
     "a", "i", "n", "e", "\"", ",", "\"", "i", "s", "A", "c", "t", "i", "v",
     "e", "\"", ":", "t", "r", "u", "e", ",", "\"", "s", "t", "a", "g", "e",
     "s", "\"", ":", "[", "{", "\"", "n", "a", "m", "e", "\"", ":", "\"",
     "S", "e", "v", "e", "r", "e", "\"", ",", "\"", "m", "e", "d", "i", "c",
     "a", "t", "i", "o", "n", "\"", ":", "[", "{", "\"", "n", "a", "m", "e",
     "\"", ":", "\"", "I", "b", "u", "p", "r", "o", "f", "e", "n", "\"",
     ",", "\"", "q", "u", "a", "n", "t", "i", "t", "y", "M", "g", "\"", ":",
     "4", "0", "0", ",", "\"", "i", "n", "t", "e", "r", "v", "a", "l", "H",
     "o", "u", "r", "s", "\"", ":", "8", ",", "\"", "t", "o", "t", "a", "l",
     "D", "a", "y", "s", "\"", ":", "5", ",", "\"", "t", "r", "e", "a", "t",
     "m", "e", "n", "t", "I", "d", "\"", ":", "n", "u", "l", "l", "}", "]",
     "}", "]", "}" >>

\* C15: for every create and update method and every typed input, the body
\* sent on every attempt is the JSON serialization of exactly that input
\* (a Content-Type JSON string), the same on every retry.
C15_BodyIsJsonOfInput ==
  /\ \A c \in BodyCalls :
       (call = c[1] /\ pc # "idle") => SentBody(Str(JSONstringify(c[2])))
  /\ (call = createSymptom(SevereMigraineSymptom) /\ pc # "idle") =>
       SentBody(Str(SevereMigraineJson))

C15_Witness ==
  /\ call = createSymptom(SevereMigraineSymptom)
  /\ Len(tries) = 2
  /\ tries[1].req.body = Str(SevereMigraineJson)
  /\ tries[2].req.body = Str(SevereMigraineJson)
  /\ pc = "done"

\* "/symptoms"
PATH_symptoms ==
  << "/", "s", "y", "m", "p", "t", "o", "m", "s" >>

\* "/symptoms/"
PATH_symptomsId ==
  << "/", "s", "y", "m", "p", "t", "o", "m", "s", "/" >>

\* "/Medication/stage/"
PATH_MedicationStage ==
  << "/", "M", "e", "d", "i", "c", "a", "t", "i", "o", "n", "/", "s", "t", "a", "g", "e", "/" >>

\* "/Medication"
PATH_Medication ==
  << "/", "M", "e", "d", "i", "c", "a", "t", "i", "o", "n" >>

\* "/Medication/"
PATH_MedicationId ==
  << "/", "M", "e", "d", "i", "c", "a", "t", "i", "o", "n", "/" >>

\* "/stages"
PATH_stages ==
  << "/", "s", "t", "a", "g", "e", "s" >>

\* "/stages/"
PATH_stagesId ==
  << "/", "s", "t", "a", "g", "e", "s", "/" >>

\* "/intakes"
PATH_intakes ==
  << "/", "i", "n", "t", "a", "k", "e", "s" >>

\* "/intakes/"
PATH_intakesId ==
  << "/", "i", "n", "t", "a", "k", "e", "s", "/" >>

\* the decimal text of the ids of Ids
IdText(i) == IF i = 7 THEN << "7" >> ELSE << "4", "2" >>

\* every try of the call used HTTP method m on path
Routed(m, path) ==
  /\ Len(tries) > 0
  /\ \A k \in Tries :
       /\ tries[k].req.method = m
       /\ tries[k].req.url = BASE_URL \o path
       /\ (m \in {"GET", "DELETE"}) => (tries[k].req.body = Undefined)
       /\ (m \in {"POST", "PUT"}) => (tries[k].req.body # Undefined)

\* the interface table: the HTTP method and the path of client method fn
\* called with id i
RouteTable(fn, i) ==
  CASE fn = "getSymptoms"           -> << "GET", PATH_symptoms >>
    [] fn = "getSymptom"            -> << "GET", PATH_symptomsId \o IdText(i) >>
    [] fn = "createSymptom"         -> << "POST", PATH_symptoms >>
    [] fn = "updateSymptom"         -> << "PUT", PATH_symptomsId \o IdText(i) >>
    [] fn = "deleteSymptom"         -> << "DELETE", PATH_symptomsId \o IdText(i) >>
    [] fn = "getMedicationsByStage" -> << "GET", PATH_MedicationStage \o IdText(i) >>
    [] fn = "getMedication"         -> << "GET", PATH_MedicationId \o IdText(i) >>
    [] fn = "createMedication"      -> << "POST", PATH_Medication >>
    [] fn = "updateMedication"      -> << "PUT", PATH_MedicationId \o IdText(i) >>
    [] fn = "deleteMedication"      -> << "DELETE", PATH_MedicationId \o IdText(i) >>
    [] fn = "createStage"           -> << "POST", PATH_stages >>
    [] fn = "updateStage"           -> << "PUT", PATH_stagesId \o IdText(i) >>
    [] fn = "deleteStage"           -> << "DELETE", PATH_stagesId \o IdText(i) >>
    [] fn = "createIntake"          -> << "POST", PATH_intakes >>
    [] fn = "updateIntake"          -> << "PUT", PATH_intakesId \o IdText(i) >>
    [] fn = "deleteIntake"          -> << "DELETE", PATH_intakesId \o IdText(i) >>

\* the calls of method fn with id i
CallsOf(fn, i) ==
  CASE fn = "getSymptom"            -> {getSymptom(i)}
    [] fn = "updateSymptom"         -> {updateSymptom(i, SevereMigraineSymptom)}
    [] fn = "deleteSymptom"         -> {deleteSymptom(i)}
    [] fn = "getMedicationsByStage" -> {getMedicationsByStage(i)}
    [] fn = "getMedication"         -> {getMedication(i)}
    [] fn = "updateMedication"      -> {updateMedication(i, IbuprofenMedication)}
    [] fn = "deleteMedication"      -> {deleteMedication(i)}
    [] fn = "updateStage"           -> {updateStage(i, SevereStage)}
    [] fn = "deleteStage"           -> {deleteStage(i)}
    [] fn = "updateIntake"          -> {updateIntake(i, DoseIntake)}
    [] fn = "deleteIntake"          -> {deleteIntake(i)}
    [] OTHER                        -> {c \in MethodCalls : c.fn = fn}

TableMethods ==
  {"getSymptoms", "getSymptom", "createSymptom", "updateSymptom", "deleteSymptom",
   "getMedicationsByStage", "getMedication", "createMedication", "updateMedication",
   "deleteMedication", "createStage", "updateStage", "deleteStage", "createIntake",
   "updateIntake", "deleteIntake"}

\* C16: every typed client method issues, on every attempt, exactly the HTTP
\* method and the path the interface table lists for it, with its numeric id
\* interpolated; GET and DELETE requests carry no body.
C16_MethodAndPath ==
  pc # "idle" =>
    /\ call.fn \in TableMethods
    /\ \A fn \in TableMethods : \A i \in Ids :
         (call.fn = fn /\ call \in CallsOf(fn, i)) =>
           Routed(RouteTable(fn, i)[1], RouteTable(fn, i)[2])

C16_Witness ==
  /\ call = deleteMedication(42)
  /\ pc = "done"
  /\ Len(tries) = 2
  /\ tries[2].req.method = "DELETE"
  /\ tries[2].req.url = BASE_URL \o PATH_MedicationId \o << "4", "2" >>
  /\ tries[2].req.body = Undefined
  /\ response = R200Json


-----------------------------------------------------------------------------
(* HomeScreen: the list of symptoms, its fetch, and the active switch of    *)
(* each SymptomCard with its optimistic update and rollback.                *)

\* calls of handleToggleActive followed in one behaviour
MaxToggles == 3

\* the lists GET /symptoms answers with
ServerLists ==
  { << [id |-> 7, isActive |-> TRUE], [id |-> 42, isActive |-> TRUE] >>,
    << [id |-> 7, isActive |-> FALSE], [id |-> 42, isActive |-> TRUE] >> }

STR_FailedToLoad == "Failed to load symptoms. Please try again."

ALERT_FailedToLoad ==
  "Failed to load symptoms. Please check your connection and try again."

ALERT_FailedToUpdate == "Failed to update symptom. Please try again."

\* `list.map(symptom => symptom.id === symptomId
\*                        ? { ...symptom, isActive: value } : symptom)`
withActive(list, symptomId, value) ==
  [i \in 1..Len(list) |->
     IF list[i].id = symptomId THEN [list[i] EXCEPT !.isActive = value]
     ELSE list[i]]

\* the list is on screen: neither the loading nor the error view is rendered
ListShown == ~loading /\ homeError = "null"

\* fetchSymptoms without setError(null): the retry keeps the old message
fetchSymptoms_keepsError ==
  /\ ~loading
  /\ homeError # "null"
  /\ loading' = TRUE
  /\ fetching' = fetching + 1
  /\ UNCHANGED << symptoms, homeError, fetched, toggles >>
  /\ UNCHANGED << apiVars, addVars, medVars, lastAlert >>

\* fetchSymptoms up to `await apiService.getSymptoms()`: the error view's
\* 'Tap to retry'
fetchSymptoms ==
  /\ ~loading
  /\ homeError # "null"
  /\ loading' = TRUE
  /\ homeError' = "null"
  /\ fetching' = fetching + 1
  /\ UNCHANGED << symptoms, fetched, toggles >>
  /\ UNCHANGED << apiVars, addVars, medVars, lastAlert >>

\* getSymptoms() resolved: setSymptoms(symptomsData), finally setLoading(false)
fetchSymptomsResolved(symptomsData) ==
  /\ fetching > 0
  /\ fetching' = fetching - 1
  /\ fetched' = [state |-> "resolved", data |-> symptomsData]
  /\ symptoms' = symptomsData
  /\ loading' = FALSE
  /\ UNCHANGED << homeError, toggles >>
  /\ UNCHANGED << apiVars, addVars, medVars, lastAlert >>

\* getSymptoms() threw: setError(..), finally setLoading(false)
fetchSymptomsFailed ==
  /\ fetching > 0
  /\ fetching' = fetching - 1
  /\ fetched' = [state |-> "failed"]
  /\ homeError' = STR_FailedToLoad
  /\ lastAlert' = ALERT_FailedToLoad
  /\ loading' = FALSE
  /\ UNCHANGED << symptoms, toggles >>
  /\ UNCHANGED << apiVars, addVars, medVars >>

\* what the catch block of handleToggleActive sets: the list of the handler's
\* own closure with the symptom's isActive set to !value
rollback(t, current) == withActive(t.closure, t.id, ~t.value)

\* the Switch of the card at position i is flipped: SymptomCard.handleToggle
\* passes the new value, handleToggleActive runs up to
\* `await apiService.updateSymptom(..)`
handleToggleActive(i) ==
  /\ ListShown
  /\ i \in 1..Len(symptoms)
  /\ Len(toggles) < MaxToggles
  /\ LET symptomId == symptoms[i].id
         value == ~symptoms[i].isActive
     IN /\ symptoms' = withActive(symptoms, symptomId, value)
        /\ toggles' = Append(toggles,
             [id |-> symptomId, value |-> value, closure |-> symptoms,
              state |-> "pending"])
  /\ UNCHANGED << loading, homeError, fetching, fetched >>
  /\ UNCHANGED << apiVars, addVars, medVars, lastAlert >>

\* updateSymptom() of the k-th toggle resolved: nothing but a console.log
toggleResolved(k) ==
  /\ k \in 1..Len(toggles)
  /\ toggles[k].state = "pending"
  /\ toggles' = [toggles EXCEPT ![k].state = "resolved"]
  /\ UNCHANGED << symptoms, loading, homeError, fetching, fetched >>
  /\ UNCHANGED << apiVars, addVars, medVars, lastAlert >>

\* updateSymptom() of the k-th toggle threw: the catch block
toggleFailed(k) ==
  /\ k \in 1..Len(toggles)
  /\ toggles[k].state = "pending"
  /\ symptoms' = rollback(toggles[k], symptoms)
  /\ toggles' = [toggles EXCEPT ![k].state = "failed"]
  /\ lastAlert' = ALERT_FailedToUpdate
  /\ UNCHANGED << loading, homeError, fetching, fetched >>
  /\ UNCHANGED << apiVars, addVars, medVars >>

HomeNext ==
  \/ fetchSymptoms
  \/ \E l \in ServerLists : fetchSymptomsResolved(l)
  \/ fetchSymptomsFailed
  \/ \E i \in 1..2 : handleToggleActive(i)
  \/ \E k \in 1..MaxToggles : toggleResolved(k)
  \/ \E k \in 1..MaxToggles : toggleFailed(k)

HomeSpec == Init /\ [][HomeNext]_vars

\* the toggles of one symptom, as indices of `toggles`
TogglesOf(symptomId) == {k \in 1..Len(toggles) : toggles[k].id = symptomId}

\* no updateSymptom call is in flight
Quiet == \A k \in 1..Len(toggles) : toggles[k].state # "pending"

\* isActive of a symptom in a list
ActiveIn(list, symptomId) ==
  \E i \in 1..Len(list) : list[i].id = symptomId /\ list[i].isActive

\* C17: when the updateSymptom call behind a toggle fails, the toggled
\* symptom ends up (once no call is in flight) with the isActive it had
\* before that toggle; the optimistic value stays only when the call
\* succeeded.  Stated for a symptom toggled once, where "the value before
\* the toggle" is not open to interpretation.
C17_FailedToggleRolledBack ==
  Quiet =>
    \A k \in 1..Len(toggles) :
      TogglesOf(toggles[k].id) = {k} =>
        (toggles[k].state = "failed" =>
           ActiveIn(symptoms, toggles[k].id) = ~toggles[k].value)


-----------------------------------------------------------------------------
(* The Add-Symptom flow: AddSymptomScreen (name step, handleSave) and the   *)
(* SymptomForm it shows (stages, medications, Save).                        *)

\* what AddSpec follows: medications in the form at one time, calls of
\* updateMedication in one behaviour, createSymptom calls in flight
MaxMeds == 1
MaxEdits == 2
MaxCreating == 1

\* what the user types: symptom names, medication names, numeric fields
SymptomNameTexts == { << " ", " " >>, << " ", "F", "l", "u", " " >> }
MedicationNameTexts == { << " " >>, << "I", "b", "u" >> }
NumberTexts == { << >>, << "-", "5" >>, << "1", "2" >> }

NumberFields == {"quantityMg", "intervalHours", "totalDays"}
Fields == {"name"} \cup NumberFields

IsWhitespace(c) == c = " "

\* String.prototype.trim
RECURSIVE TrimStart(_)
TrimStart(s) ==
  IF s # << >> /\ IsWhitespace(Head(s)) THEN TrimStart(Tail(s)) ELSE s

RECURSIVE TrimEnd(_)
TrimEnd(s) ==
  IF s # << >> /\ IsWhitespace(s[Len(s)])
  THEN TrimEnd(SubSeq(s, 1, Len(s) - 1))
  ELSE s

Trim(s) == TrimEnd(TrimStart(s))

NaN == [nan |-> TRUE, n |-> 0]
Number(n) == [nan |-> FALSE, n |-> n]

DigitValue(c) == CHOOSE d \in 0..9 : DigitChars[d + 1] = c
IsDigit(c) == \E d \in 0..9 : DigitChars[d + 1] = c

\* the value of the longest prefix of digits of s, NaN when it is empty
RECURSIVE ParseDigits(_, _, _)
ParseDigits(s, acc, seen) ==
  IF s # << >> /\ IsDigit(Head(s))
  THEN ParseDigits(Tail(s), acc * 10 + DigitValue(Head(s)), TRUE)
  ELSE IF seen THEN Number(acc) ELSE NaN

\* parseInt(text): leading whitespace skipped, an optional sign, then digits
ParseInt(text) ==
  LET s == TrimStart(text)
  IN IF s # << >> /\ Head(s) = "-"
     THEN LET r == ParseDigits(Tail(s), 0, FALSE)
          IN IF r.nan THEN NaN ELSE Number(0 - r.n)
     ELSE IF s # << >> /\ Head(s) = "+"
     THEN ParseDigits(Tail(s), 0, FALSE)
     ELSE ParseDigits(s, 0, FALSE)

\* `x || d` for a number x: 0 and NaN are falsy
OrDefault(x, d) == IF x.nan \/ x.n = 0 THEN d ELSE x.n

\* String(n) of an integer
NumberToString(n) == IF n < 0 THEN << "-" >> \o ToString(0 - n) ELSE ToString(n)

\* the numeric TextInputs' onChangeText: `parseInt(value) || 0`
numericInput(text) == OrDefault(ParseInt(text), 0)

\* addMedicationToStage's newMedication (stageId, always 0, is left out: it
\* is not read)
newMedication ==
  [name |-> << >>, intervalHours |-> 8, totalDays |-> 5, quantityMg |-> 400]

hasAnyMedications ==
  \E s \in 1..Len(stages) : Len(stages[s].medications) > 0

MedicationCount ==
  Len(stages[1].medications) + Len(stages[2].medications)
    + Len(stages[3].medications)

\* the form is on screen and takes input
FormShown == navigation = "open" /\ showSymptomForm

\* SymptomForm's state on mount
FormMounted ==
  /\ stages' = InitialStages(formKind)
  /\ expandedStage' = -1
  /\ validationErrors' = {}


ALERT_EnterName == "Please enter a symptom name"
ALERT_AddOneMedication == "Please add at least one medication to any stage"
ALERT_MustHaveName == "All medications must have a name"
ALERT_Success == "Symptom added successfully!"
ALERT_FailedToCreate == "Failed to create symptom"

\* the name TextInput of the name step: onChangeText={setSymptomName}
setSymptomName(text) ==
  /\ navigation = "open"
  /\ ~showSymptomForm
  /\ symptomName' = text
  /\ UNCHANGED << formKind, isLoading, showSymptomForm, stages, expandedStage,
                  validationErrors, edits, creating, lastRequest, navigation >>
  /\ UNCHANGED << apiVars, homeVars, medVars, lastAlert >>

\* the Next button, disabled={!symptomName.trim() || isLoading}, and
\* handleNext behind it; showing the form mounts SymptomForm
handleNext ==
  /\ navigation = "open"
  /\ ~showSymptomForm
  /\ ~(Trim(symptomName) = << >> \/ isLoading)
  /\ IF Trim(symptomName) = << >>
     THEN /\ lastAlert' = ALERT_EnterName
          /\ UNCHANGED << showSymptomForm, stages, expandedStage,
                          validationErrors >>
     ELSE /\ showSymptomForm' = TRUE
          /\ FormMounted
          /\ UNCHANGED lastAlert
  /\ UNCHANGED << formKind, symptomName, isLoading, edits, creating,
                  lastRequest, navigation >>
  /\ UNCHANGED << apiVars, homeVars, medVars >>

\* the form's Cancel button: onCancel={handleBackToName}; SymptomForm is
\* unmounted and its state is lost
handleBackToName ==
  /\ FormShown
  /\ showSymptomForm' = FALSE
  /\ FormMounted
  /\ UNCHANGED << formKind, symptomName, isLoading, edits, creating,
                  lastRequest, navigation >>
  /\ UNCHANGED << apiVars, homeVars, medVars, lastAlert >>

\* the name step's Cancel button, with 'Discard' where it asks
handleCancel ==
  /\ navigation = "open"
  /\ ~showSymptomForm
  /\ navigation' = "back"
  /\ UNCHANGED << formKind, symptomName, isLoading, showSymptomForm, stages,
                  expandedStage, validationErrors, edits, creating,
                  lastRequest >>
  /\ UNCHANGED << apiVars, homeVars, medVars, lastAlert >>

\* a stage header is pressed
toggleStage(stageIndex) ==
  /\ FormShown
  /\ expandedStage' = IF expandedStage = stageIndex THEN -1 ELSE stageIndex
  /\ UNCHANGED << formKind, symptomName, isLoading, showSymptomForm, stages,
                  validationErrors, edits, creating, lastRequest, navigation >>
  /\ UNCHANGED << apiVars, homeVars, medVars, lastAlert >>

\* 'Add Medication' of the expanded stage
addMedicationToStage(stageIndex) ==
  /\ FormShown
  /\ expandedStage = stageIndex
  /\ stages' = [stages EXCEPT ![stageIndex].medications =
                  Append(@, newMedication)]
  /\ validationErrors' =
       IF formKind = "validating" THEN {} ELSE validationErrors
  /\ UNCHANGED << formKind, symptomName, isLoading, showSymptomForm,
                  expandedStage, edits, creating, lastRequest, navigation >>
  /\ UNCHANGED << apiVars, homeVars, medVars, lastAlert >>

FieldChars(field) ==
  CASE field = "name" -> << "n", "a", "m", "e" >>
    [] field = "quantityMg" ->
         << "q", "u", "a", "n", "t", "i", "t", "y", "M", "g" >>
    [] field = "intervalHours" ->
         << "i", "n", "t", "e", "r", "v", "a", "l", "H", "o", "u", "r", "s" >>
    [] field = "totalDays" ->
         << "t", "o", "t", "a", "l", "D", "a", "y", "s" >>

\* `${stageIndex}-${medIndex}-`, the indices counted from 0 as in the source
keyPrefix(stageIndex, medIndex) ==
  ToString(stageIndex - 1) \o << "-" >> \o ToString(medIndex - 1) \o << "-" >>

\* `${stageIndex}-${medIndex}-${field}`
errorKey(stageIndex, medIndex, field) ==
  keyPrefix(stageIndex, medIndex) \o FieldChars(field)

\* String.prototype.startsWith
StartsWith(s, prefix) ==
  Len(s) >= Len(prefix) /\ SubSeq(s, 1, Len(prefix)) = prefix

\* storedValue without the validating form's clamp
storedValue_unclamped(kind, field, value) == value

\* the value updateMedication stores: the plain form stores what it is
\* given, the validating form replaces a negative number by 0
storedValue(kind, field, value) ==
  IF kind = "validating" /\ field \in NumberFields
  THEN IF OrDefault(ParseInt(NumberToString(value)), 0) < 0 THEN 0 ELSE value
  ELSE value

\* a field of a medication of the expanded stage is edited
SymptomForm_updateMedication(stageIndex, medIndex, field, value) ==
  /\ FormShown
  /\ expandedStage = stageIndex
  /\ medIndex \in 1..Len(stages[stageIndex].medications)
  /\ edits' = edits + 1
  /\ stages' = [stages EXCEPT ![stageIndex].medications[medIndex][field] =
                  storedValue(formKind, field, value)]
  /\ validationErrors' =
       IF formKind = "validating"
       THEN validationErrors \ {errorKey(stageIndex, medIndex, field)}
       ELSE validationErrors
  /\ UNCHANGED << formKind, symptomName, isLoading, showSymptomForm,
                  expandedStage, creating, lastRequest, navigation >>
  /\ UNCHANGED << apiVars, homeVars, medVars, lastAlert >>

\* removeMedication splicing the list of stages instead of the stage's
\* medications
removeMedication_fromStages(stageIndex, medIndex) ==
  /\ navigation = "open" /\ showSymptomForm
  /\ expandedStage = stageIndex
  /\ medIndex \in 1..Len(stages[stageIndex].medications)
  /\ stages' = SubSeq(stages, 1, stageIndex - 1)
                 \o SubSeq(stages, stageIndex + 1, Len(stages))
  /\ UNCHANGED << formKind, symptomName, isLoading, showSymptomForm,
                  expandedStage, validationErrors, edits, creating,
                  lastRequest, navigation >>
  /\ UNCHANGED << apiVars, homeVars, medVars, lastAlert >>

\* Array.prototype.splice(medIndex, 1)
splice(list, medIndex) ==
  SubSeq(list, 1, medIndex - 1) \o SubSeq(list, medIndex + 1, Len(list))

\* the remove icon of a medication, confirmed with 'Remove'
removeMedication(stageIndex, medIndex) ==
  /\ FormShown
  /\ expandedStage = stageIndex
  /\ medIndex \in 1..Len(stages[stageIndex].medications)
  /\ stages' = [stages EXCEPT ![stageIndex].medications = splice(@, medIndex)]
  /\ validationErrors' =
       IF formKind = "validating"
       THEN {key \in validationErrors :
               ~StartsWith(key, keyPrefix(stageIndex, medIndex))}
       ELSE validationErrors
  /\ UNCHANGED << formKind, symptomName, isLoading, showSymptomForm,
                  expandedStage, edits, creating, lastRequest, navigation >>
  /\ UNCHANGED << apiVars, homeVars, medVars, lastAlert >>


\* validateMedication: the keys of the errors it records
validateMedication(medication, stageIndex, medIndex) ==
  {errorKey(stageIndex, medIndex, field) : field \in
     {f \in Fields :
        IF f = "name" THEN Trim(medication.name) = << >>
        ELSE medication[f] = 0 \/ medication[f] <= 0}}

\* the validating handleSave's loop: the errors of every medication
allErrors(formStages) ==
  UNION {UNION {validateMedication(formStages[s].medications[m], s, m) :
                  m \in 1..Len(formStages[s].medications)} :
           s \in 1..Len(formStages)}

\* handleSave's medication of the request
apiMedication(med) ==
  [name |-> med.name,
   quantityMg |-> OrDefault(Number(med.quantityMg), 0),
   intervalHours |-> OrDefault(Number(med.intervalHours), 8),
   totalDays |-> OrDefault(Number(med.totalDays), 5)]

apiStage(stage) ==
  [name |-> stage.name,
   medication |-> [m \in 1..Len(stage.medications) |->
                     apiMedication(stage.medications[m])]]

\* handleSave's `stages.filter(..).map(..)`
apiStages_keepEmpty(formStages) ==
  [s \in 1..Len(formStages) |-> apiStage(formStages[s])]

apiStages(formStages) ==
  LET kept == SelectSeq(formStages, LAMBDA stage : Len(stage.medications) > 0)
  IN [s \in 1..Len(kept) |-> apiStage(kept[s])]

\* the name of the request: `symptomName.trim()`
requestName_untrimmed(entered) == entered

requestName(entered) == Trim(entered)

\* AddSymptomScreen.handleSave(stages) up to `await createSymptom(..)`
handleSave(formStages) ==
  IF apiStages(formStages) = << >>
  THEN /\ lastAlert' = ALERT_AddOneMedication
       /\ isLoading' = FALSE
       /\ UNCHANGED << creating, lastRequest >>
  ELSE /\ isLoading' = TRUE
       /\ creating' = creating + 1
       /\ lastRequest' =
            [sent |-> TRUE,
             data |-> [name |-> requestName(symptomName),
                       isActive |-> TRUE,
                       stages |-> apiStages(formStages)],
             form |-> formStages,
             entered |-> symptomName]
       /\ UNCHANGED lastAlert

\* a medication of the form has a blank name
SomeNameBlank ==
  \E s \in 1..Len(stages) : \E m \in 1..Len(stages[s].medications) :
    Trim(stages[s].medications[m].name) = << >>

\* the form's Save button, disabled={!hasAnyMedications}, the handleSave of
\* the mounted SymptomForm and, through onSave, AddSymptomScreen.handleSave
SymptomForm_handleSave ==
  /\ FormShown
  /\ hasAnyMedications
  /\ IF formKind = "plain"
     THEN /\ UNCHANGED validationErrors
          /\ IF SomeNameBlank
             THEN /\ lastAlert' = ALERT_MustHaveName
                  /\ UNCHANGED << isLoading, creating, lastRequest >>
             ELSE handleSave(stages)
     ELSE /\ validationErrors' = allErrors(stages)
          /\ IF ~hasAnyMedications
             THEN /\ lastAlert' = ALERT_AddOneMedication
                  /\ UNCHANGED << isLoading, creating, lastRequest >>
             ELSE IF allErrors(stages) # {}
             THEN UNCHANGED << isLoading, creating, lastRequest, lastAlert >>
             ELSE handleSave(stages)
  /\ UNCHANGED << formKind, symptomName, showSymptomForm, stages,
                  expandedStage, edits, navigation >>
  /\ UNCHANGED << apiVars, homeVars, medVars >>

\* createSymptom() resolved: the success alert, finally setIsLoading(false)
createSymptomResolved ==
  /\ creating > 0
  /\ creating' = creating - 1
  /\ lastAlert' = ALERT_Success
  /\ navigation' = IF navigation = "open" THEN "success" ELSE navigation
  /\ isLoading' = FALSE
  /\ UNCHANGED << formKind, symptomName, showSymptomForm, stages,
                  expandedStage, validationErrors, edits, lastRequest >>
  /\ UNCHANGED << apiVars, homeVars, medVars >>

\* createSymptom() threw: the error alert, finally setIsLoading(false)
createSymptomFailed ==
  /\ creating > 0
  /\ creating' = creating - 1
  /\ lastAlert' = ALERT_FailedToCreate
  /\ isLoading' = FALSE
  /\ UNCHANGED << formKind, symptomName, showSymptomForm, stages,
                  expandedStage, validationErrors, edits, lastRequest,
                  navigation >>
  /\ UNCHANGED << apiVars, homeVars, medVars >>

\* 'OK' of the success alert: navigation.goBack()
successOk ==
  /\ navigation = "success"
  /\ navigation' = "back"
  /\ UNCHANGED << formKind, symptomName, isLoading, showSymptomForm, stages,
                  expandedStage, validationErrors, edits, creating,
                  lastRequest >>
  /\ UNCHANGED << apiVars, homeVars, medVars, lastAlert >>

AddInit ==
  /\ ApiInit
  /\ HomeScreenInit
  /\ \E kind \in FormKinds : AddSymptomScreenInit(kind)
  /\ AddMedicationScreenInit
  /\ lastAlert = "none"

AddNext ==
  \/ \E text \in SymptomNameTexts : setSymptomName(text)
  \/ handleNext
  \/ handleBackToName
  \/ handleCancel
  \/ \E s \in 1..3 : toggleStage(s)
  \/ \E s \in 1..3 : MedicationCount < MaxMeds /\ addMedicationToStage(s)
  \/ \E s \in 1..3 : \E m \in 1..MaxMeds : \E text \in MedicationNameTexts :
       edits < MaxEdits /\ SymptomForm_updateMedication(s, m, "name", text)
  \/ \E s \in 1..3 : \E m \in 1..MaxMeds : \E f \in NumberFields :
       \E text \in NumberTexts :
         /\ edits < MaxEdits
         /\ SymptomForm_updateMedication(s, m, f, numericInput(text))
  \/ \E s \in 1..3 : \E m \in 1..MaxMeds : removeMedication(s, m)
  \/ creating < MaxCreating /\ SymptomForm_handleSave
  \/ createSymptomResolved
  \/ createSymptomFailed
  \/ successOk

AddSpec == AddInit /\ [][AddNext]_vars


-----------------------------------------------------------------------------
(* Properties of the Add-Symptom flow                                       *)

\* the stages of a form that have at least one medication
WithMedications(formStages) ==
  SelectSeq(formStages, LAMBDA stage : Len(stage.medications) > 0)

\* the medications of a request, as << stage, medication >> positions
RequestMedications ==
  {sm \in (1..3) \X (1..(MaxMeds + 1)) :
     /\ sm[1] <= Len(lastRequest.data.stages)
     /\ sm[2] <= Len(lastRequest.data.stages[sm[1]].medication)}

\* C18: every createSymptom request of the Add-Symptom flow has at least one
\* stage and every stage of it has at least one medication; its stages are
\* the form's stages that have medications, in order, the others are left
\* out, and a form without medications issues no request.
C18_EveryStageHasMedication ==
  lastRequest.sent =>
    LET sent == lastRequest.data.stages
        kept == WithMedications(lastRequest.form)
    IN /\ Len(sent) >= 1
       /\ \A s \in 1..Len(sent) : Len(sent[s].medication) >= 1
       /\ Len(sent) = Len(kept)
       /\ \A s \in 1..Len(sent) :
            /\ sent[s].name = kept[s].name
            /\ Len(sent[s].medication) = Len(kept[s].medications)

\* a request was issued from a form with a stage that has no medication
C18_Witness ==
  /\ lastRequest.sent
  /\ creating > 0
  /\ \E s \in 1..Len(lastRequest.form) :
       Len(lastRequest.form[s].medications) = 0
  /\ Len(lastRequest.data.stages) < Len(lastRequest.form)

\* C19: every medication of every createSymptom request of the Add-Symptom
\* flow has a non-blank name and strictly positive quantityMg, intervalHours
\* and totalDays, whatever edits preceded Save.
C19_MedicationsPositive ==
  lastRequest.sent =>
    \A sm \in RequestMedications :
      LET med == lastRequest.data.stages[sm[1]].medication[sm[2]]
      IN /\ Trim(med.name) # << >>
         /\ med.quantityMg > 0
         /\ med.intervalHours > 0
         /\ med.totalDays > 0

\* C20: every createSymptom request of the Add-Symptom flow has
\* isActive = true and, as name, the entered name trimmed, which is not
\* empty; the stage form is never shown while the entered name is blank.
C20_NameTrimmedAndActive ==
  /\ lastRequest.sent =>
       /\ lastRequest.data.isActive = TRUE
       /\ lastRequest.data.name = Trim(lastRequest.entered)
       /\ lastRequest.data.name # << >>
  /\ showSymptomForm => Trim(symptomName) # << >>

\* a request was issued for a name entered with surrounding blanks
C20_Witness ==
  /\ lastRequest.sent
  /\ creating > 0
  /\ lastRequest.entered # lastRequest.data.name
  /\ showSymptomForm


-----------------------------------------------------------------------------
(* Properties of the race between response and timer, and of the POSTs      *)
(* that reach the backend                                                   *)

\* C21: the result of a call comes only from an attempt whose response
\* arrived before that attempt's own timer fired.  A race is won by the
\* response only if the response came no later than the timer's deadline; a
\* response that arrives after the timer won is kept out of the race and of
\* the call's result; and a timer that fires after the response won leaves
\* the race fulfilled and the call not thrown.
C21_ResultOnlyFromTimelyResponse ==
  /\ \A k \in Tries :
       /\ tries[k].race.state = "fulfilled" =>
            /\ tries[k].fetch.state = "fulfilled"
            /\ tries[k].race.value = tries[k].fetch.value
            /\ tries[k].fetch.at <= tries[k].timerAt
            /\ k = Len(tries)
            /\ response = tries[k].race.value
            /\ (tries[k].race.value \in SuccessResponses) =>
                 reqOutcome.kind # "thrown"
       /\ TimedOut(k) =>
            /\ tries[k].timer = "fired"
            /\ tries[k].race.at = tries[k].timerAt
            /\ tries[k].fetch.state # "pending" =>
                 tries[k].fetch.at >= tries[k].race.at
  /\ response # NoResponse => LastTry.race.state = "fulfilled"
  /\ reqOutcome.kind = "resolved" => response # NoResponse

\* the first attempt timed out and its response arrived late; the second
\* attempt was answered in time, its timer fired afterwards, and the call
\* resolved with the second response
C21_Witness ==
  /\ Len(tries) = 2
  /\ TimedOut(1)
  /\ tries[1].fetch.state = "fulfilled"
  /\ tries[1].fetch.value = R200Text
  /\ tries[2].race.state = "fulfilled"
  /\ tries[2].race.value = R200Json
  /\ tries[2].timer = "fired"
  /\ reqOutcome = Resolved(ServerSymptom)


CreateMethods ==
  {"createSymptom", "createMedication", "createStage", "createIntake"}

\* the attempts whose POST the backend processed: it answered them with a
\* success status, in time or late
Processed ==
  {k \in Tries : /\ tries[k].fetch.state = "fulfilled"
                 /\ ResponseOk(tries[k].fetch.value)}

\* C22: one invocation of a create method never makes the backend process
\* the same POST more than once, whatever the interleaving of timeouts, late
\* responses and retries; a create call that throws has not created twice.
C22_PostProcessedOnce ==
  (pc # "idle" /\ call.fn \in CreateMethods) => Cardinality(Processed) <= 1


-----------------------------------------------------------------------------
(* Properties of HomeScreen                                                 *)

\* the step is the catch block of the k-th toggle
RollsBack(k) ==
  /\ k \in 1..Len(toggles)
  /\ toggles[k].state = "pending"
  /\ toggles'[k].state = "failed"

\* C23: when the updateSymptom call for symptom A fails, the rollback changes
\* only A's isActive in the local list: every other symptom, an optimistic
\* toggle of a symptom B made while A's call was in flight included, keeps
\* its local state.
C23_RollbackTouchesOnlyItsSymptom ==
  [][\A k \in 1..MaxToggles :
       RollsBack(k) =>
         /\ Len(symptoms') = Len(symptoms)
         /\ \A i \in 1..Len(symptoms) :
              symptoms[i].id # toggles[k].id => symptoms'[i] = symptoms[i]]_vars


\* what C24 says of every state
FetchStateConsistent ==
  /\ fetching = 0 =>
       /\ ~loading
       /\ homeError # "null" <=> fetched.state = "failed"
  /\ (fetched.state = "resolved" /\ toggles = << >>) => symptoms = fetched.data

\* what C24 says of the steps: a call of fetchSymptoms clears error and sets
\* loading before its request, a resolved one stores the returned list
FetchSteps ==
  /\ fetching' > fetching => (loading' /\ homeError' = "null")
  /\ (fetching' < fetching /\ fetched'.state = "resolved") =>
       symptoms' = fetched'.data

\* C24: on the symptom list screen loading is false whenever no fetch is in
\* flight, and error is non-null exactly when the most recent fetchSymptoms
\* failed; a retry clears error and sets loading before the call, and a
\* successful fetch replaces symptoms with the returned list.
C24_LoadingAndErrorFollowFetch ==
  []FetchStateConsistent /\ [][FetchSteps]_vars

\* a retry after a failed fetch succeeded: the list is shown, error cleared
C24_Witness ==
  /\ fetching = 0
  /\ fetched.state = "resolved"
  /\ lastAlert = ALERT_FailedToLoad
  /\ homeError = "null"
  /\ ~loading
  /\ symptoms = fetched.data
  /\ symptoms # << >>


-----------------------------------------------------------------------------
(* Properties of the stage form                                             *)

\* C25: the stage form always holds exactly three stages with fixed names in
\* a fixed order: no sequence of add-medication, update-medication,
\* remove-medication, expand/collapse and save operations adds, removes,
\* renames or reorders a stage.
C25_ThreeFixedStages ==
  /\ Len(stages) = 3
  /\ \A s \in 1..3 : stages[s].name = StageNames(formKind)[s]

\* the form after an add, two updates, a save, a remove and a collapse
C25_Witness ==
  /\ showSymptomForm
  /\ lastRequest.sent
  /\ edits >= 2
  /\ ~hasAnyMedications
  /\ expandedStage = -1


-----------------------------------------------------------------------------
(* AddMedicationScreen: four text fields and Save                           *)

\* what the user types into the name field and into the numeric fields
MedNameTexts == { << " " >>, << " ", "I", "b", "u" >> }
MedNumberTexts == { << >>, << "1", "2" >>, << "." >> }

ALERT_EnterMedicationName == "Please enter a medication name"
ALERT_FillAllFields == "Please fill in all fields"
ALERT_MedicationAdded == "Medication added successfully!"
ALERT_FailedToCreateMedication == "Failed to create medication"

\* the TextInputs: onChangeText={setName}, {setQuantityMg}, ..
setName(text) ==
  /\ medNavigation = "open"
  /\ medName' = text
  /\ UNCHANGED << route, medIntervalHours, medTotalDays, medQuantityMg,
                  medIsLoading, medCreating, medRequest, medNavigation >>
  /\ UNCHANGED << apiVars, homeVars, addVars, lastAlert >>

setQuantityMg(text) ==
  /\ medNavigation = "open"
  /\ medQuantityMg' = text
  /\ UNCHANGED << route, medName, medIntervalHours, medTotalDays,
                  medIsLoading, medCreating, medRequest, medNavigation >>
  /\ UNCHANGED << apiVars, homeVars, addVars, lastAlert >>

setIntervalHours(text) ==
  /\ medNavigation = "open"
  /\ medIntervalHours' = text
  /\ UNCHANGED << route, medName, medTotalDays, medQuantityMg,
                  medIsLoading, medCreating, medRequest, medNavigation >>
  /\ UNCHANGED << apiVars, homeVars, addVars, lastAlert >>

setTotalDays(text) ==
  /\ medNavigation = "open"
  /\ medTotalDays' = text
  /\ UNCHANGED << route, medName, medIntervalHours, medQuantityMg,
                  medIsLoading, medCreating, medRequest, medNavigation >>
  /\ UNCHANGED << apiVars, homeVars, addVars, lastAlert >>

\* `!intervalHours || !totalDays || !quantityMg` with the dosage left out
someFieldEmpty_ignoresDosage(interval, days, quantity) ==
  interval = << >> \/ days = << >>

\* `!intervalHours || !totalDays || !quantityMg`: the empty string is falsy
someFieldEmpty(interval, days, quantity) ==
  interval = << >> \/ days = << >> \/ quantity = << >>

\* the Save button's disabled={isLoading}, never disabled
saveDisabled_never(busy) == FALSE

\* the Save button's disabled={isLoading}
saveDisabled(busy) == busy

\* handleSave's medicationData (stage: null and intakes: null are left out)
medicationData ==
  [name |-> Trim(medName),
   intervalHours |-> ParseInt(medIntervalHours),
   totalDays |-> ParseInt(medTotalDays),
   quantityMg |-> ParseInt(medQuantityMg),
   treatmentId |-> route.symptomId,
   stageId |-> route.stageId]

\* the Save button and handleSave up to `await createMedication(..)`
AddMedication_handleSave ==
  /\ medNavigation = "open"
  /\ ~saveDisabled(medIsLoading)
  /\ IF Trim(medName) = << >>
     THEN /\ lastAlert' = ALERT_EnterMedicationName
          /\ UNCHANGED << medIsLoading, medCreating, medRequest >>
     ELSE IF someFieldEmpty(medIntervalHours, medTotalDays, medQuantityMg)
     THEN /\ lastAlert' = ALERT_FillAllFields
          /\ UNCHANGED << medIsLoading, medCreating, medRequest >>
     ELSE /\ medIsLoading' = TRUE
          /\ medCreating' = medCreating + 1
          /\ medRequest' =
               [sent |-> TRUE,
                data |-> medicationData,
                entered |-> [name |-> medName,
                             intervalHours |-> medIntervalHours,
                             totalDays |-> medTotalDays,
                             quantityMg |-> medQuantityMg]]
          /\ UNCHANGED lastAlert
  /\ UNCHANGED << route, medName, medIntervalHours, medTotalDays,
                  medQuantityMg, medNavigation >>
  /\ UNCHANGED << apiVars, homeVars, addVars >>

\* createMedication() resolved: the success alert, finally
\* setIsLoading(false)
createMedicationResolved ==
  /\ medCreating > 0
  /\ medCreating' = medCreating - 1
  /\ lastAlert' = ALERT_MedicationAdded
  /\ medNavigation' = IF medNavigation = "open" THEN "success"
                      ELSE medNavigation
  /\ medIsLoading' = FALSE
  /\ UNCHANGED << route, medName, medIntervalHours, medTotalDays,
                  medQuantityMg, medRequest >>
  /\ UNCHANGED << apiVars, homeVars, addVars >>

\* createMedication() threw: the error alert, finally setIsLoading(false)
createMedicationFailed ==
  /\ medCreating > 0
  /\ medCreating' = medCreating - 1
  /\ lastAlert' = ALERT_FailedToCreateMedication
  /\ medIsLoading' = FALSE
  /\ UNCHANGED << route, medName, medIntervalHours, medTotalDays,
                  medQuantityMg, medRequest, medNavigation >>
  /\ UNCHANGED << apiVars, homeVars, addVars >>

\* 'OK' of the success alert: navigation.goBack()
medicationAddedOk ==
  /\ medNavigation = "success"
  /\ medNavigation' = "back"
  /\ UNCHANGED << route, medName, medIntervalHours, medTotalDays,
                  medQuantityMg, medIsLoading, medCreating, medRequest >>
  /\ UNCHANGED << apiVars, homeVars, addVars, lastAlert >>

MedNext ==
  \/ \E text \in MedNameTexts : setName(text)
  \/ \E text \in MedNumberTexts : setQuantityMg(text)
  \/ \E text \in MedNumberTexts : setIntervalHours(text)
  \/ \E text \in MedNumberTexts : setTotalDays(text)
  \/ AddMedication_handleSave
  \/ createMedicationResolved
  \/ createMedicationFailed
  \/ medicationAddedOk

MedSpec == Init /\ [][MedNext]_vars


-----------------------------------------------------------------------------
(* Properties of AddMedicationScreen                                        *)

\* the fields as they are on screen pass handleSave's two checks
MedFieldsValid(name, interval, days, quantity) ==
  /\ Trim(name) # << >>
  /\ interval # << >>
  /\ days # << >>
  /\ quantity # << >>

\* the last request was issued from valid fields and carries the trimmed
\* name, the parsed numbers and the ids of the route
MedRequestFromValidFields ==
  medRequest.sent =>
    LET typed == medRequest.entered
        data == medRequest.data
    IN /\ MedFieldsValid(typed.name, typed.intervalHours, typed.totalDays,
                         typed.quantityMg)
       /\ data.name = Trim(typed.name)
       /\ data.intervalHours = ParseInt(typed.intervalHours)
       /\ data.totalDays = ParseInt(typed.totalDays)
       /\ data.quantityMg = ParseInt(typed.quantityMg)
       /\ data.treatmentId = route.symptomId
       /\ data.stageId = route.stageId

\* a step that issues a request starts from valid fields; a step that shows
\* one of the two validation alerts starts from invalid fields, issues no
\* request and leaves isLoading false
MedSaveSteps ==
  /\ medCreating' > medCreating =>
       /\ MedFieldsValid(medName, medIntervalHours, medTotalDays,
                         medQuantityMg)
       /\ medRequest'.sent
       /\ medRequest'.entered.name = medName
       /\ medRequest'.entered.quantityMg = medQuantityMg
  /\ (/\ lastAlert' # lastAlert
      /\ lastAlert' \in {ALERT_EnterMedicationName, ALERT_FillAllFields}) =>
       /\ ~MedFieldsValid(medName, medIntervalHours, medTotalDays,
                          medQuantityMg)
       /\ medCreating' = medCreating
       /\ medRequest' = medRequest
       /\ ~medIsLoading'

\* C26: AddMedicationScreen issues createMedication only when the name is
\* non-blank after trimming and none of the interval, duration and dosage
\* fields is empty; otherwise it shows an alert, issues no request and
\* leaves isLoading false.  The request carries the trimmed name, the
\* results of parseInt, and the route's stageId and symptomId (as
\* treatmentId).
C26_MedicationRequestValidated ==
  []MedRequestFromValidFields /\ [][MedSaveSteps]_vars

\* a request in flight for ' Ibu' with dosage '12', issued after a Save that
\* was refused for an empty field
C26_Witness ==
  /\ medRequest.sent
  /\ medCreating = 1
  /\ medRequest.entered.name = << " ", "I", "b", "u" >>
  /\ medRequest.data.name = << "I", "b", "u" >>
  /\ medRequest.data.quantityMg = Number(12)
  /\ medRequest.data.intervalHours = Number(8)
  /\ lastAlert = ALERT_FillAllFields

\* C27: in AddMedicationScreen isLoading is true from the start of a save
\* until its createMedication call settles and false afterwards, whether the
\* call succeeded or failed; Save is disabled while it is true, so there are
\* never two createMedication calls in flight.
C27_OneMedicationCallInFlight ==
  /\ medCreating <= 1
  /\ medIsLoading <=> medCreating = 1

\* a second save in flight after the first one failed
C27_Witness ==
  /\ medCreating = 1
  /\ medIsLoading
  /\ lastAlert = ALERT_FailedToCreateMedication


-----------------------------------------------------------------------------
(* The stage form on its own: SymptomForm from the moment AddSymptomScreen  *)
(* shows it, followed with more medications and more calls in flight than   *)
(* AddSpec follows.                                                         *)

FormMaxMeds == 2
FormMaxEdits == 1
FormMaxCreating == 2

\* AddSymptomScreen right after handleNext showed the form for 'Flu'
FormInit ==
  /\ ApiInit
  /\ HomeScreenInit
  /\ AddMedicationScreenInit
  /\ lastAlert = "none"
  /\ \E kind \in FormKinds :
       /\ formKind = kind
       /\ stages = InitialStages(kind)
  /\ symptomName = << "F", "l", "u" >>
  /\ isLoading = FALSE
  /\ showSymptomForm = TRUE
  /\ expandedStage = -1
  /\ validationErrors = {}
  /\ edits = 0
  /\ creating = 0
  /\ lastRequest = NoRequest
  /\ navigation = "open"

FormNext ==
  \/ \E s \in 1..3 : toggleStage(s)
  \/ \E s \in 1..3 : MedicationCount < FormMaxMeds /\ addMedicationToStage(s)
  \/ \E s \in 1..3 : \E m \in 1..FormMaxMeds :
       \E text \in MedicationNameTexts :
         /\ edits < FormMaxEdits
         /\ SymptomForm_updateMedication(s, m, "name", text)
  \/ \E s \in 1..3 : \E m \in 1..FormMaxMeds : \E f \in NumberFields :
       \E text \in NumberTexts :
         /\ edits < FormMaxEdits
         /\ SymptomForm_updateMedication(s, m, f, numericInput(text))
  \/ \E s \in 1..3 : \E m \in 1..FormMaxMeds : removeMedication(s, m)
  \/ creating < FormMaxCreating /\ SymptomForm_handleSave
  \/ createSymptomResolved
  \/ createSymptomFailed
  \/ successOk

FormSpec == FormInit /\ [][FormNext]_vars


\* C28: in the Add-Symptom flow at most one createSymptom call is in flight
\* at a time: Save pressed on the stage form while a call is pending issues
\* no second request.
C28_OneCreateInFlight == creating <= 1

\* the medications of the form, as << stage, medication >> positions
FormMedications ==
  {sm \in (1..3) \X (1..(FormMaxMeds + MaxMeds)) :
     sm[2] <= Len(stages[sm[1]].medications)}

\* C29: in the validating stage form, after any sequence of add, update,
\* remove and save operations every key of validationErrors is the key of a
\* field of a medication that exists: its stage index and medication index
\* are in range.
C29_ErrorKeysReferToMedications ==
  formKind = "validating" =>
    \A key \in validationErrors :
      \E sm \in FormMedications : \E f \in Fields :
        key = errorKey(sm[1], sm[2], f)

\* C30: in the validating stage form quantityMg, intervalHours and totalDays
\* of every medication of the form are never negative, whatever was entered:
\* a negative value is stored as 0.
C30_NumbersNeverNegative ==
  formKind = "validating" =>
    \A sm \in FormMedications : \A f \in NumberFields :
      stages[sm[1]].medications[sm[2]][f] >= 0

\* the validating form after an edit that left 0 in a numeric field while
\* the other fields keep their defaults
C30_Witness ==
  /\ formKind = "validating"
  /\ showSymptomForm
  /\ edits >= 1
  /\ \E sm \in FormMedications :
       /\ stages[sm[1]].medications[sm[2]].intervalHours = 0
       /\ stages[sm[1]].medications[sm[2]].quantityMg = 400

=============================================================================
